---- MODULE Spec2Model ----
(***************************************************************************)
(* LimitRead: bounded delimiter scanning over a buffered byte source.      *)
(* The model follows src/src/lib.rs: read_until, append_to_string with its *)
(* Guard, the Split and Lines iterators and the LimitRead trait methods.   *)
(***************************************************************************)
EXTENDS Integers, Sequences, FiniteSets, TLC

VARIABLES data, cuts, pos, owner, itDelim, itMax, vec, str, last

vars == <<data, cuts, pos, owner, itDelim, itMax, vec, str, last>>

----------------------------------------------------------------------------
(* Bounds of the model *)

\* longest source content
MaxLen == 3
\* largest max length a caller passes: one more than any record can need
MaxMax == MaxLen + 1
\* longest script of fill_buf outcomes a call is given (later requests succeed)
MaxPlan == 2

----------------------------------------------------------------------------
(* Bytes *)

LF == 10
CR == 13

\* The byte values a source holds: the line terminator, the carriage return
\* (an ordinary ASCII byte for the scan), and 0xC3, 0xA9: together the UTF-8
\* encoding of U+00E9, each alone an invalid sequence.
Bytes == {LF, CR, 195, 169}
\* the delimiters a byte-mode caller passes
Delims == {LF, CR}

\* the absent index of memchr (Option::None)
NoIndex == -1

SeqsUpTo(S, n) == UNION {[1..k -> S] : k \in 0..n}

\* outcomes of one fill_buf request
Outcomes == {"ok", "intr", "err"}
\* The scripts a call can meet. Requests past the end of a script succeed and
\* read_until returns at the first "err", so a script is written without a
\* trailing "ok" and with nothing after an "err".
Plans ==
  {p \in SeqsUpTo(Outcomes, MaxPlan) :
     /\ p # <<>> => p[Len(p)] # "ok"
     /\ \A j \in 1..(Len(p) - 1) : p[j] # "err"}
\* a source that never reports a failure or an interruption
NoFaults == {<<>>}
\* a source that reports interruptions and no other failure
Interrupts == {p \in Plans : \A j \in 1..Len(p) : p[j] # "err"}

----------------------------------------------------------------------------
(* io::Result *)

Ok(n) == [ok |-> TRUE, n |-> n, kind |-> "none"]
Err(k) == [ok |-> FALSE, n |-> 0, kind |-> k]

----------------------------------------------------------------------------
(* The buffered source: BufRead::fill_buf and BufRead::consume *)

\* end of the chunk that starts at cursor p
ChunkEnd(p) ==
  LET later == {c \in cuts : c > p}
  IN IF later = {} THEN Len(data)
     ELSE CHOOSE c \in later : \A d \in later : c <= d

\* the bytes fill_buf makes available at cursor p (empty when drained)
fill_buf(p) == SubSeq(data, p + 1, ChunkEnd(p))

\* a source whose cursor skips the rest of the chunk whatever count it is given
consume_chunk(p, used) == ChunkEnd(p)

\* BufRead::consume
consume(p, used) == p + used

\* memchr::memchr: zero-based index of the first occurrence, or NoIndex
memchr(delim, available) ==
  LET hits == {j \in 1..Len(available) : available[j] = delim}
  IN IF hits = {} THEN NoIndex
     ELSE (CHOOSE j \in hits : \A h \in hits : j <= h) - 1

\* a buffer write that replaces the content instead of appending to it
extend_from_slice_overwrite(buf, slice) == slice

\* Vec::extend_from_slice
extend_from_slice(buf, slice) == buf \o slice

----------------------------------------------------------------------------
(* std::str::from_utf8 on a byte sequence *)

IsCont(b) == b >= 128 /\ b <= 191

RECURSIVE Utf8From(_, _)
Utf8From(s, i) ==
  IF i > Len(s) THEN TRUE
  ELSE LET b == s[i]
           has(k) == i + k <= Len(s)
       IN IF b < 128 THEN Utf8From(s, i + 1)
          ELSE IF b >= 194 /\ b <= 223
            THEN has(1) /\ IsCont(s[i + 1]) /\ Utf8From(s, i + 2)
          ELSE IF b >= 224 /\ b <= 239
            THEN /\ has(2)
                 /\ IsCont(s[i + 1]) /\ IsCont(s[i + 2])
                 /\ (b = 224 => s[i + 1] >= 160)
                 /\ (b = 237 => s[i + 1] <= 159)
                 /\ Utf8From(s, i + 3)
          ELSE IF b >= 240 /\ b <= 244
            THEN /\ has(3)
                 /\ IsCont(s[i + 1]) /\ IsCont(s[i + 2]) /\ IsCont(s[i + 3])
                 /\ (b = 240 => s[i + 1] >= 144)
                 /\ (b = 244 => s[i + 1] <= 143)
                 /\ Utf8From(s, i + 4)
          ELSE FALSE

from_utf8_ok(s) == Utf8From(s, 1)

----------------------------------------------------------------------------
(* read_until: the bounded delimiter scan *)

SizeExceeded == "NotFound"
SourceFailure == "Other"
InvalidData == "InvalidData"
Interrupted == "Interrupted"

\* the size check off by one: a record of exactly max bytes is refused
size_check_ge(read, i, max) == read + i + 1 >= max

\* the size check without the bytes of the earlier chunks of the call
size_check_chunk_only(read, i, max) == i + 1 > max

\* the size check of read_until: TRUE when the scan must fail
size_check(read, i, max) == read + i + 1 > max

\* a scan that also applies the bound to a chunk without a delimiter
RECURSIVE read_until_bounded(_, _, _, _, _, _)
read_until_bounded(p, delim, buf, max, read, plan) ==
  LET outcome == IF plan = <<>> THEN "ok" ELSE Head(plan)
      rest == IF plan = <<>> THEN <<>> ELSE Tail(plan)
  IN IF outcome = "intr" THEN read_until_bounded(p, delim, buf, max, read, rest)
     ELSE IF outcome = "err"
       THEN [ret |-> Err(SourceFailure), buf |-> buf, pos |-> p]
     ELSE LET available == fill_buf(p)
              i == memchr(delim, available)
          IN IF i # NoIndex
             THEN IF size_check(read, i, max)
                  THEN [ret |-> Err(SizeExceeded), buf |-> buf, pos |-> p]
                  ELSE [ret |-> Ok(read + i + 1),
                        buf |-> extend_from_slice(buf, SubSeq(available, 1, i + 1)),
                        pos |-> consume(p, i + 1)]
             ELSE LET used == Len(available)
                  IN IF read + used > max
                     THEN [ret |-> Err(SizeExceeded), buf |-> buf, pos |-> p]
                     ELSE IF used = 0
                     THEN [ret |-> Ok(read),
                           buf |-> extend_from_slice(buf, available),
                           pos |-> consume(p, used)]
                     ELSE read_until_bounded(consume(p, used), delim,
                                             extend_from_slice(buf, available),
                                             max, read + used, rest)

\* a scan that consumes the matched bytes before it applies the bound
RECURSIVE read_until_consume_first(_, _, _, _, _, _)
read_until_consume_first(p, delim, buf, max, read, plan) ==
  LET outcome == IF plan = <<>> THEN "ok" ELSE Head(plan)
      rest == IF plan = <<>> THEN <<>> ELSE Tail(plan)
  IN IF outcome = "intr"
       THEN read_until_consume_first(p, delim, buf, max, read, rest)
     ELSE IF outcome = "err"
       THEN [ret |-> Err(SourceFailure), buf |-> buf, pos |-> p]
     ELSE LET available == fill_buf(p)
              i == memchr(delim, available)
          IN IF i # NoIndex
             THEN IF size_check(read, i, max)
                  THEN [ret |-> Err(SizeExceeded), buf |-> buf,
                        pos |-> consume(p, i + 1)]
                  ELSE [ret |-> Ok(read + i + 1),
                        buf |-> extend_from_slice(buf, SubSeq(available, 1, i + 1)),
                        pos |-> consume(p, i + 1)]
             ELSE LET used == Len(available)
                  IN IF used = 0
                     THEN [ret |-> Ok(read),
                           buf |-> extend_from_slice(buf, available),
                           pos |-> consume(p, used)]
                     ELSE read_until_consume_first(consume(p, used), delim,
                                                   extend_from_slice(buf, available),
                                                   max, read + used, rest)

\* a scan that requests the chunk again after any failure of the source
RECURSIVE read_until_retry_all(_, _, _, _, _, _)
read_until_retry_all(p, delim, buf, max, read, plan) ==
  LET outcome == IF plan = <<>> THEN "ok" ELSE Head(plan)
      rest == IF plan = <<>> THEN <<>> ELSE Tail(plan)
  IN IF outcome = "intr" \/ outcome = "err"
       THEN read_until_retry_all(p, delim, buf, max, read, rest)
     ELSE LET available == fill_buf(p)
              i == memchr(delim, available)
          IN IF i # NoIndex
             THEN IF size_check(read, i, max)
                  THEN [ret |-> Err(SizeExceeded), buf |-> buf, pos |-> p]
                  ELSE [ret |-> Ok(read + i + 1),
                        buf |-> extend_from_slice(buf, SubSeq(available, 1, i + 1)),
                        pos |-> consume(p, i + 1)]
             ELSE LET used == Len(available)
                  IN IF used = 0
                     THEN [ret |-> Ok(read),
                           buf |-> extend_from_slice(buf, available),
                           pos |-> consume(p, used)]
                     ELSE read_until_retry_all(consume(p, used), delim,
                                               extend_from_slice(buf, available),
                                               max, read + used, rest)

\* a scan that returns an interruption to its caller like any other failure
RECURSIVE read_until_no_retry(_, _, _, _, _, _)
read_until_no_retry(p, delim, buf, max, read, plan) ==
  LET outcome == IF plan = <<>> THEN "ok" ELSE Head(plan)
      rest == IF plan = <<>> THEN <<>> ELSE Tail(plan)
  IN IF outcome = "intr"
       THEN [ret |-> Err(Interrupted), buf |-> buf, pos |-> p]
     ELSE IF outcome = "err"
       THEN [ret |-> Err(SourceFailure), buf |-> buf, pos |-> p]
     ELSE LET available == fill_buf(p)
              i == memchr(delim, available)
          IN IF i # NoIndex
             THEN IF size_check(read, i, max)
                  THEN [ret |-> Err(SizeExceeded), buf |-> buf, pos |-> p]
                  ELSE [ret |-> Ok(read + i + 1),
                        buf |-> extend_from_slice(buf, SubSeq(available, 1, i + 1)),
                        pos |-> consume(p, i + 1)]
             ELSE LET used == Len(available)
                  IN IF used = 0
                     THEN [ret |-> Ok(read),
                           buf |-> extend_from_slice(buf, available),
                           pos |-> consume(p, used)]
                     ELSE read_until_no_retry(consume(p, used), delim,
                                              extend_from_slice(buf, available),
                                              max, read + used, rest)

\* p: source cursor, buf: output bytes, read: bytes read so far in this call,
\* plan: the outcomes of the coming fill_buf requests
RECURSIVE read_until(_, _, _, _, _, _)
read_until(p, delim, buf, max, read, plan) ==
  LET outcome == IF plan = <<>> THEN "ok" ELSE Head(plan)
      rest == IF plan = <<>> THEN <<>> ELSE Tail(plan)
  IN IF outcome = "intr" THEN read_until(p, delim, buf, max, read, rest)
     ELSE IF outcome = "err"
       THEN [ret |-> Err(SourceFailure), buf |-> buf, pos |-> p]
     ELSE LET available == fill_buf(p)
              i == memchr(delim, available)
          IN IF i # NoIndex
             THEN IF size_check(read, i, max)
                  THEN [ret |-> Err(SizeExceeded), buf |-> buf, pos |-> p]
                  ELSE [ret |-> Ok(read + i + 1),
                        buf |-> extend_from_slice(buf, SubSeq(available, 1, i + 1)),
                        pos |-> consume(p, i + 1)]
             ELSE LET used == Len(available)
                  IN IF used = 0
                     THEN [ret |-> Ok(read),
                           buf |-> extend_from_slice(buf, available),
                           pos |-> consume(p, used)]
                     ELSE read_until(consume(p, used), delim,
                                     extend_from_slice(buf, available),
                                     max, read + used, rest)

----------------------------------------------------------------------------
(* Guard and append_to_string *)

\* a guard that leaves the buffer's length where the scan put it
Guard_drop_keep(buf, len) == buf

\* Drop for Guard: buf.set_len(len)
Guard_drop(buf, len) == SubSeq(buf, 1, len)

\* a guard whose length is moved to the end of the buffer without the UTF-8 validation
Guard_len_unchecked(len0, buf) == Len(buf)

\* the length the Guard holds when append_to_string returns
Guard_len(len0, buf) ==
  IF from_utf8_ok(SubSeq(buf, len0 + 1, Len(buf))) THEN Len(buf) ELSE len0

\* a return that hands back the scan's result without the encoding error
append_ret_scan(len0, buf, ret) == ret

\* the value append_to_string returns, given the scan's result
append_ret(len0, buf, ret) ==
  IF ~from_utf8_ok(SubSeq(buf, len0 + 1, Len(buf)))
  THEN IF ret.ok THEN Err(InvalidData) ELSE ret
  ELSE ret

\* an append that puts the cursor back when the bytes fail the UTF-8 check
append_to_string_rewind(p, s, max, plan) ==
  LET len0 == Len(s)
      r == read_until(p, LF, s, max, 0, plan)
      ret == append_ret(len0, r.buf, r.ret)
  IN [ret |-> ret,
      scan |-> r.ret,
      buf |-> Guard_drop(r.buf, Guard_len(len0, r.buf)),
      pos |-> IF ret = Err(InvalidData) THEN p ELSE r.pos]

\* an append that commits only when the scan succeeded
append_to_string_commit_on_ok(p, s, max, plan) ==
  LET len0 == Len(s)
      r == read_until(p, LF, s, max, 0, plan)
  IN [ret |-> append_ret(len0, r.buf, r.ret),
      scan |-> r.ret,
      buf |-> IF r.ret.ok THEN Guard_drop(r.buf, Guard_len(len0, r.buf)) ELSE s,
      pos |-> r.pos]

append_to_string(p, s, max, plan) ==
  LET len0 == Len(s)
      r == read_until(p, LF, s, max, 0, plan)
  IN [ret |-> append_ret(len0, r.buf, r.ret),
      scan |-> r.ret,
      buf |-> Guard_drop(r.buf, Guard_len(len0, r.buf)),
      pos |-> r.pos]

----------------------------------------------------------------------------
(* Items of the iterators: Option<Result<..>> *)

NoneItem == [tag |-> "None", val |-> <<>>, kind |-> "none"]
OkItem(v) == [tag |-> "Ok", val |-> v, kind |-> "none"]
ErrItem(k) == [tag |-> "Err", val |-> <<>>, kind |-> k]
NoItem == [tag |-> "-", val |-> <<>>, kind |-> "none"]

pop(buf) == SubSeq(buf, 1, Len(buf) - 1)
ends_with(buf, b) == Len(buf) > 0 /\ buf[Len(buf)] = b

\* a Split that yields the record with its delimiter
Split_item_keep(r, delim) ==
  IF r.ret.ok
  THEN IF r.ret.n = 0 THEN NoneItem ELSE OkItem(r.buf)
  ELSE ErrItem(r.ret.kind)

\* Split::next, after the scan
Split_item(r, delim) ==
  IF r.ret.ok
  THEN IF r.ret.n = 0 THEN NoneItem
       ELSE OkItem(IF r.buf[Len(r.buf)] = delim THEN pop(r.buf) ELSE r.buf)
  ELSE ErrItem(r.ret.kind)

\* a Lines that ends the sequence at an empty line
Lines_item_none_on_empty(r) ==
  IF r.ret.ok
  THEN IF r.ret.n = 0 \/ r.buf = <<LF>> THEN NoneItem
       ELSE OkItem(IF ends_with(r.buf, LF)
                   THEN IF ends_with(pop(r.buf), CR) THEN pop(pop(r.buf))
                        ELSE pop(r.buf)
                   ELSE r.buf)
  ELSE ErrItem(r.ret.kind)

\* a Lines that strips the terminator and leaves a carriage return before it
Lines_item_keep_cr(r) ==
  IF r.ret.ok
  THEN IF r.ret.n = 0 THEN NoneItem
       ELSE OkItem(IF ends_with(r.buf, LF) THEN pop(r.buf) ELSE r.buf)
  ELSE ErrItem(r.ret.kind)

\* Lines::next, after read_line_lim
Lines_item(r) ==
  IF r.ret.ok
  THEN IF r.ret.n = 0 THEN NoneItem
       ELSE OkItem(IF ends_with(r.buf, LF)
                   THEN IF ends_with(pop(r.buf), CR) THEN pop(pop(r.buf))
                        ELSE pop(r.buf)
                   ELSE r.buf)
  ELSE ErrItem(r.ret.kind)

----------------------------------------------------------------------------
(* State *)
(* data, cuts: the source's content and the places where fill_buf ends a   *)
(* chunk; pos: the source's cursor; owner: who holds the source (the       *)
(* caller's reader, a Split or a Lines); itDelim, itMax: the iterator's     *)
(* fields; vec, str: the caller's Vec<u8> and String; last: the call that   *)
(* has just returned, with the cursor and the buffer it started from and    *)
(* the outcomes its fill_buf requests met, until the caller takes its       *)
(* result (NoCall then).                                                    *)

NoCall == [op |-> "none", delim |-> LF, max |-> 0, plan |-> <<>>, prePos |-> 0,
           preBuf |-> <<>>, scan |-> Ok(0), ret |-> Ok(0), item |-> NoItem]

Init ==
  /\ data \in SeqsUpTo(Bytes, MaxLen)
  /\ cuts \in SUBSET (1..(Len(data) - 1))
  /\ pos = 0
  /\ owner = "reader"
  /\ itDelim = LF
  /\ itMax = 0
  /\ vec = <<>>
  /\ str = <<>>
  /\ last = NoCall

\* LimitRead::read_until_lim on the caller's Vec<u8>
read_until_limP(P) ==
  /\ owner = "reader"
  /\ last = NoCall
  /\ \E byte \in Delims, max \in 0..MaxMax, plan \in P :
       LET r == read_until(pos, byte, vec, max, 0, plan)
       IN /\ vec' = r.buf
          /\ pos' = r.pos
          /\ last' = [op |-> "read_until_lim", delim |-> byte, max |-> max,
                      plan |-> plan,
                      prePos |-> pos, preBuf |-> vec, scan |-> r.ret,
                      ret |-> r.ret, item |-> NoItem]
  /\ UNCHANGED <<data, cuts, owner, itDelim, itMax, str>>

\* LimitRead::read_line_lim on the caller's String
read_line_limP(P) ==
  /\ owner = "reader"
  /\ last = NoCall
  /\ \E max \in 0..MaxMax, plan \in P :
       LET r == append_to_string(pos, str, max, plan)
       IN /\ str' = r.buf
          /\ pos' = r.pos
          /\ last' = [op |-> "read_line_lim", delim |-> LF, max |-> max,
                      plan |-> plan,
                      prePos |-> pos, preBuf |-> str, scan |-> r.scan,
                      ret |-> r.ret, item |-> NoItem]
  /\ UNCHANGED <<data, cuts, owner, itDelim, itMax, vec>>

\* LimitRead::split_lim: the source moves into the Split
split_lim ==
  /\ owner = "reader"
  /\ last = NoCall
  /\ \E byte \in Delims, max \in 0..MaxMax :
       /\ itDelim' = byte
       /\ itMax' = max
  /\ owner' = "split"
  /\ UNCHANGED <<data, cuts, pos, vec, str, last>>

\* LimitRead::lines_lim: the source moves into the Lines
lines_lim ==
  /\ owner = "reader"
  /\ last = NoCall
  /\ \E max \in 0..MaxMax : itMax' = max
  /\ itDelim' = LF
  /\ owner' = "lines"
  /\ UNCHANGED <<data, cuts, pos, vec, str, last>>

\* a Split whose bound is a budget shared by all its steps: each step is
\* left what the earlier steps did not consume
Split_nextP_cumulative(P) ==
  /\ owner = "split"
  /\ last = NoCall
  /\ \E plan \in P :
       LET r == read_until(pos, itDelim, <<>>, itMax - pos, 0, plan)
       IN /\ pos' = r.pos
          /\ last' = [op |-> "split_next", delim |-> itDelim, max |-> itMax,
                      plan |-> plan,
                      prePos |-> pos, preBuf |-> <<>>, scan |-> r.ret,
                      ret |-> r.ret, item |-> Split_item(r, itDelim)]
  /\ UNCHANGED <<data, cuts, owner, itDelim, itMax, vec, str>>

\* Split::next
Split_nextP(P) ==
  /\ owner = "split"
  /\ last = NoCall
  /\ \E plan \in P :
       LET r == read_until(pos, itDelim, <<>>, itMax, 0, plan)
       IN /\ pos' = r.pos
          /\ last' = [op |-> "split_next", delim |-> itDelim, max |-> itMax,
                      plan |-> plan,
                      prePos |-> pos, preBuf |-> <<>>, scan |-> r.ret,
                      ret |-> r.ret, item |-> Split_item(r, itDelim)]
  /\ UNCHANGED <<data, cuts, owner, itDelim, itMax, vec, str>>

\* Lines::next
Lines_nextP(P) ==
  /\ owner = "lines"
  /\ last = NoCall
  /\ \E plan \in P :
       LET r == append_to_string(pos, <<>>, itMax, plan)
       IN /\ pos' = r.pos
          /\ last' = [op |-> "lines_next", delim |-> LF, max |-> itMax,
                      plan |-> plan,
                      prePos |-> pos, preBuf |-> <<>>, scan |-> r.scan,
                      ret |-> r.ret, item |-> Lines_item(r)]
  /\ UNCHANGED <<data, cuts, owner, itDelim, itMax, vec, str>>

\* The caller takes the value a call returned and goes on: what is left of
\* a call is the cursor and the buffers.
take_result ==
  /\ last # NoCall
  /\ last' = NoCall
  /\ UNCHANGED <<data, cuts, pos, owner, itDelim, itMax, vec, str>>

read_until_lim == read_until_limP(Plans)
read_line_lim == read_line_limP(Plans)
Split_next == Split_nextP(Plans)
Lines_next == Lines_nextP(Plans)

Next ==
  \/ read_until_lim
  \/ read_line_lim
  \/ split_lim
  \/ lines_lim
  \/ Split_next
  \/ Lines_next
  \/ take_result

Spec == Init /\ [][Next]_vars

\* byte mode alone: a caller that only scans into its Vec<u8>
NextBytes == read_until_lim \/ take_result
SpecBytes == Init /\ [][NextBytes]_vars

\* text mode alone: a caller that only reads lines into its String
NextText == read_line_lim \/ take_result
SpecText == Init /\ [][NextText]_vars

\* the two iterators
NextIter == split_lim \/ lines_lim \/ Split_next \/ Lines_next \/ take_result
SpecIter == Init /\ [][NextIter]_vars

\* both direct operations, mixed, on a source that reports interruptions
\* and no other failure
NextInterrupted ==
  read_until_limP(Interrupts) \/ read_line_limP(Interrupts) \/ take_result
SpecInterrupted == Init /\ [][NextInterrupted]_vars

\* both direct operations, mixed, on a source that never reports a failure
\* or an interruption (a slice, a file that reads cleanly)
NextReliable ==
  read_until_limP(NoFaults) \/ read_line_limP(NoFaults) \/ take_result
SpecReliable == Init /\ [][NextReliable]_vars

----------------------------------------------------------------------------
(* Vocabulary of the properties.  These are stated on the source content,  *)
(* not through read_until.                                                  *)

\* one-based position of the first d after cursor p, 0 when there is none
FirstDelim(p, d) ==
  LET hits == {j \in (p + 1)..Len(data) : data[j] = d}
  IN IF hits = {} THEN 0 ELSE CHOOSE j \in hits : \A h \in hits : j <= h

\* the source bytes between two cursors
Between(p, q) == SubSeq(data, p + 1, q)

\* no fill_buf request of the last call reported a failure
NoSourceFailure == last.scan.kind # SourceFailure

IsUntil == last.op = "read_until_lim"
IsLine == last.op = "read_line_lim"

\* the chunk boundaries the last call crossed
Crossed == {c \in cuts : last.prePos < c /\ c < pos}

----------------------------------------------------------------------------
(* C1..C4, C8: read_until_lim *)

C2_SizeExceeded ==
  IsUntil =>
    LET j == FirstDelim(last.prePos, last.delim)
        read == pos - last.prePos
    IN /\ last.ret = Err(SizeExceeded) =>
            /\ j # 0 /\ j > pos /\ j <= ChunkEnd(pos)
            /\ j - last.prePos > last.max
            /\ vec = last.preBuf \o Between(last.prePos, pos)
            /\ Len(vec) - Len(last.preBuf) = read
            /\ (read > 0 => pos \in cuts)
       /\ (NoSourceFailure /\ j # 0 /\ j - last.prePos > last.max) =>
            last.ret = Err(SizeExceeded)

\* the size check failing on the second chunk of a call, the delimiter not
\* being the first byte of that chunk
C2_Witness ==
  /\ IsUntil
  /\ last.ret = Err(SizeExceeded)
  /\ pos > last.prePos
  /\ FirstDelim(last.prePos, last.delim) > pos + 1

\* C3: when the delimiter does not occur in the unread part, the call
\* succeeds with the whole remaining length and appends all of it, whatever
\* max is.
C3_NoDelimiter ==
  (IsUntil /\ NoSourceFailure /\ FirstDelim(last.prePos, last.delim) = 0) =>
    /\ last.ret = Ok(Len(data) - last.prePos)
    /\ vec = last.preBuf \o Between(last.prePos, Len(data))
    /\ pos = Len(data)

\* max = 0, two chunks or more without a delimiter
C3_Witness ==
  /\ IsUntil
  /\ last.ret.ok
  /\ last.max = 0
  /\ FirstDelim(last.prePos, last.delim) = 0
  /\ Crossed # {}

\* C4: one call appends at most max bytes.  The code does not keep this.
C4_AppendWithinMax ==
  IsUntil => Len(vec) - Len(last.preBuf) <= last.max

\* C8: the bytes the buffer held before a read_until_lim call are still its
\* first bytes after the call, whatever the call returns.
C8_PriorBytesKept ==
  IsUntil =>
    /\ Len(vec) >= Len(last.preBuf)
    /\ SubSeq(vec, 1, Len(last.preBuf)) = last.preBuf

\* a call on a non-empty buffer that appended a chunk and then met a source
\* failure
C8_Witness ==
  /\ IsUntil
  /\ last.preBuf # <<>>
  /\ last.ret = Err(SourceFailure)
  /\ Len(vec) > Len(last.preBuf)

----------------------------------------------------------------------------
(* C5, C6: read_line_lim *)

\* C5: after every return of read_line_lim the String is valid UTF-8 and is
\* either its content before the call or that content followed by the bytes
\* the scan consumed, these having passed the UTF-8 check.
C5_StringStaysUtf8 ==
  IsLine =>
    /\ from_utf8_ok(str)
    /\ \/ str = last.preBuf
       \/ /\ str = last.preBuf \o Between(last.prePos, pos)
          /\ from_utf8_ok(Between(last.prePos, pos))

\* a source failure after a chunk that is not valid UTF-8 was appended to a
\* non-empty String
C5_Witness ==
  /\ IsLine
  /\ last.ret = Err(SourceFailure)
  /\ last.preBuf # <<>>
  /\ pos > last.prePos
  /\ ~from_utf8_ok(Between(last.prePos, pos))

\* C6: when the scan succeeds and the bytes it appended are not valid UTF-8,
\* read_line_lim returns InvalidData and the String is what it was before the
\* call.
C6_InvalidRollsBack ==
  (IsLine /\ last.scan.ok /\ ~from_utf8_ok(Between(last.prePos, pos))) =>
    /\ last.ret = Err(InvalidData)
    /\ str = last.preBuf

\* such a call on a non-empty String, the scan having found the terminator
C6_Witness ==
  /\ IsLine
  /\ last.scan.ok
  /\ last.preBuf # <<>>
  /\ ~from_utf8_ok(Between(last.prePos, pos))
  /\ data[pos] = LF

----------------------------------------------------------------------------
(* C7, C10: the iterators *)

IsStep == last.op \in {"split_next", "lines_next"}

\* C7: the sequence an iterator yields over a finite source is finite, and
\* None comes only once the source is exhausted.  Over a source that reports
\* no failure a step is a function of the cursor alone, so the sequence is
\* finite exactly when every step that yields an item moves the cursor: then
\* at most Len(data) items come before None, otherwise the same item comes
\* again at every later step.  The code does not keep this.
C7_SequenceEnds ==
  (IsStep /\ NoSourceFailure) =>
    /\ last.item # NoneItem => pos > last.prePos
    /\ last.item = NoneItem => pos = Len(data)

\* the record a step starts at: its length with the delimiter, 0 when the
\* unread part holds no delimiter
RecordLen == 
  LET j == FirstDelim(last.prePos, last.delim)
  IN IF j = 0 THEN 0 ELSE j - last.prePos

OneChunk == cuts = {}

\* C10 as stated: over a one-chunk source a step of Split or Lines that
\* starts at a delimiter-terminated record yields Ok exactly when the
\* record's length with its delimiter is <= max, and the NotFound error
\* otherwise.
C10_StepDecidedBySizeAlone ==
  (IsStep /\ OneChunk /\ NoSourceFailure /\ RecordLen > 0) =>
    IF RecordLen <= last.max
    THEN last.item.tag = "Ok"
    ELSE last.item = ErrItem(SizeExceeded)

\* C10 amended: the scan of the step succeeds, with the record's length as
\* its count, exactly when that length is <= max and fails with NotFound
\* otherwise, whatever the earlier steps consumed; the step then yields Ok,
\* except a Lines step whose record is not valid UTF-8, which yields
\* InvalidData.
C10_StepCountsFromZero ==
  (IsStep /\ OneChunk /\ NoSourceFailure /\ RecordLen > 0) =>
    IF RecordLen <= last.max
    THEN /\ last.scan = Ok(RecordLen)
         /\ pos = last.prePos + RecordLen
         /\ IF last.op = "lines_next" /\ ~from_utf8_ok(Between(last.prePos, pos))
            THEN last.item = ErrItem(InvalidData)
            ELSE last.item.tag = "Ok"
    ELSE /\ last.scan = Err(SizeExceeded)
         /\ last.item = ErrItem(SizeExceeded)
         /\ pos = last.prePos

\* a later step that succeeds on a record within max although the bytes
\* consumed since the iterator was made exceed max
C10_Witness ==
  /\ IsStep
  /\ OneChunk
  /\ last.prePos > 0
  /\ RecordLen > 0
  /\ RecordLen <= last.max
  /\ pos > last.max
  /\ last.item.tag = "Ok"

----------------------------------------------------------------------------
(* C9: a size failure on the first chunk of a call loses nothing *)

IsDirect == IsUntil \/ IsLine

\* the buffer the last direct call wrote to
Buffer == IF IsUntil THEN vec ELSE str

\* the last call found the delimiter in its first chunk, beyond max
FirstChunkFailure ==
  /\ IsDirect
  /\ RecordLen > 0
  /\ last.prePos + RecordLen <= ChunkEnd(last.prePos)
  /\ RecordLen > last.max

\* the failed call left the cursor and its buffer as they were
FailureLeavesState ==
  /\ last.ret = Err(SizeExceeded)
  /\ pos = last.prePos
  /\ Buffer = last.preBuf

\* the call of the same operation that follows at once, with the same
\* delimiter, bound max and a source that reports no failure
Retry(max) ==
  IF IsUntil
  THEN LET r == read_until(pos, last.delim, vec, max, 0, <<>>)
       IN [ret |-> r.ret, scan |-> r.ret, pos |-> r.pos]
  ELSE LET r == append_to_string(pos, str, max, <<>>)
       IN [ret |-> r.ret, scan |-> r.scan, pos |-> r.pos]

----------------------------------------------------------------------------
(* C11: Lines against Split with the line terminator as delimiter *)

IsLinesStep == last.op = "lines_next"
IsSplitStep == last.op = "split_next"

\* the scan of the Split step that starts where the last step started, with
\* the line terminator as delimiter, the same max and the same fill_buf
\* outcomes
SplitScan == read_until(last.prePos, LF, <<>>, last.max, 0, last.plan)

\* a byte sequence without one trailing carriage return
StripCR(v) == IF ends_with(v, CR) THEN pop(v) ELSE v

\* an item whose value has lost one trailing carriage return
ItemStripCR(it) == [it EXCEPT !.val = StripCR(it.val)]

\* C11 as stated: over a source whose content is valid UTF-8 a Lines step
\* consumes what the Split step on LF consumes from the same cursor and
\* yields the Split item with one trailing carriage return removed when
\* present, the final line without terminator included.
C11_LinesEqualSplit ==
  (IsLinesStep /\ from_utf8_ok(data)) =>
    /\ pos = SplitScan.pos
    /\ last.item = ItemStripCR(Split_item(SplitScan, LF))

\* C11 amended: the Lines step consumes what the Split step consumes and its
\* scan returns the same result.  Its item is the Split item with one
\* trailing carriage return removed when the record ends with the line
\* terminator, and the Split item unchanged (a trailing carriage return
\* kept) when the record ends at the end of the source without terminator;
\* except a step whose scan succeeds on bytes that are not valid UTF-8 (it
\* started inside a character, after a failed step), which yields InvalidData.
C11_LinesEqualSplitTerminated ==
  (IsLinesStep /\ from_utf8_ok(data)) =>
    LET r == SplitScan
        s == Split_item(r, LF)
    IN /\ pos = r.pos
       /\ last.scan = r.ret
       /\ IF r.ret.ok /\ ~from_utf8_ok(r.buf)
          THEN last.item = ErrItem(InvalidData)
          ELSE IF r.ret.ok /\ ends_with(r.buf, LF)
          THEN last.item = ItemStripCR(s)
          ELSE last.item = s

\* a final line without terminator that ends with a carriage return, yielded
\* after an earlier line
C11_Witness ==
  /\ IsLinesStep
  /\ from_utf8_ok(data)
  /\ last.prePos > 0
  /\ last.item.tag = "Ok"
  /\ pos = Len(data)
  /\ data[pos] = CR
  /\ ends_with(last.item.val, CR)

----------------------------------------------------------------------------
(* C12: the items of Split *)

\* the source bytes the last call consumed
Consumed == Between(last.prePos, pos)

\* C12: a Split step whose scan counts n > 0 yields Ok; the item is the n
\* bytes the scan appended without the last one when that is the delimiter
\* and all of them otherwise; the delimiter occurs nowhere else in these
\* bytes, so exactly one is removed; a record without delimiter ends at the
\* end of the source; a record that is the delimiter alone gives the empty
\* item.
C12_SplitItem ==
  IsSplitStep =>
    /\ (last.scan.ok /\ last.scan.n > 0) <=> last.item.tag = "Ok"
    /\ last.item.tag = "Ok" =>
         LET n == Len(Consumed)
         IN /\ last.scan.n = n
            /\ \A j \in 1..(n - 1) : Consumed[j] # last.delim
            /\ IF Consumed[n] = last.delim
               THEN last.item.val = SubSeq(Consumed, 1, n - 1)
               ELSE /\ last.item.val = Consumed
                    /\ pos = Len(data)
            /\ Consumed = <<last.delim>> => last.item.val = <<>>

\* a record that is the delimiter alone, after an earlier record, yielded as
\* the empty item
C12_Witness ==
  /\ IsSplitStep
  /\ last.prePos > 0
  /\ Consumed = <<last.delim>>
  /\ last.item = OkItem(<<>>)

----------------------------------------------------------------------------
(* C13: interruptions *)

\* what a direct call leaves: its result, the buffer and the cursor
Outcome(ret, buf, p) == [ret |-> ret, buf |-> buf, pos |-> p]

\* the last direct call made again from where it started, its fill_buf
\* requests meeting the outcomes of plan
Run(plan) ==
  IF IsUntil
  THEN LET r == read_until(last.prePos, last.delim, last.preBuf, last.max, 0,
                           plan)
       IN Outcome(r.ret, r.buf, r.pos)
  ELSE LET r == append_to_string(last.prePos, last.preBuf, last.max, plan)
       IN Outcome(r.ret, r.buf, r.pos)

\* the outcomes of plan without the interruptions
Uninterrupted(plan) == SelectSeq(plan, LAMBDA o : o # "intr")

\* C13: read_until_lim and read_line_lim never return Interrupted, and the
\* result, the buffer and the cursor they leave are those of the same call
\* on a source that reports the same outcomes without the interruptions.
C13_InterruptedRetried ==
  IsDirect =>
    /\ last.ret.kind # Interrupted
    /\ Outcome(last.ret, Buffer, pos) = Run(Uninterrupted(last.plan))

\* a read_line_lim on a non-empty String that was interrupted between its
\* first and its second chunk and succeeded
C13_Witness ==
  /\ IsLine
  /\ last.plan = <<"ok", "intr">>
  /\ Crossed # {}
  /\ last.preBuf # <<>>
  /\ last.ret.ok

----------------------------------------------------------------------------
(* C14, C15: read_line_lim when its scan fails *)

\* the scan of the last read_line_lim failed after it had appended bytes
ScanFailedPartial == IsLine /\ ~last.scan.ok /\ Consumed # <<>>

\* C14 as stated: when the scan fails and the bytes it appended are not
\* valid UTF-8, read_line_lim returns the scan's error and the String still
\* holds those bytes after its content from before the call.
C14_InvalidPartialKept ==
  (ScanFailedPartial /\ ~from_utf8_ok(Consumed)) =>
    /\ last.ret = last.scan
    /\ str = last.preBuf \o Consumed

\* C14 amended: when the scan fails and the bytes it appended are not valid
\* UTF-8, read_line_lim returns the scan's error and the String is what it
\* was before the call: the Guard's length was not moved, so its drop cuts
\* the appended bytes off.  The cursor stays behind them.
C14_InvalidPartialRolledBack ==
  (ScanFailedPartial /\ ~from_utf8_ok(Consumed)) =>
    /\ last.ret = last.scan
    /\ str = last.preBuf
    /\ pos = last.prePos + Len(Consumed)

\* a size failure on the second chunk, the first chunk being half a
\* character, on a non-empty String
C14_Witness ==
  /\ ScanFailedPartial
  /\ last.ret = Err(SizeExceeded)
  /\ last.preBuf # <<>>
  /\ ~from_utf8_ok(Consumed)

\* C15: when the scan fails and the bytes it appended are valid UTF-8,
\* read_line_lim returns the scan's error and the String holds its content
\* from before the call followed by those bytes.
C15_ValidPartialCommitted ==
  (ScanFailedPartial /\ from_utf8_ok(Consumed)) =>
    /\ last.ret = last.scan
    /\ str = last.preBuf \o Consumed

\* a source failure after a chunk of valid UTF-8 was appended to a non-empty
\* String
C15_Witness ==
  /\ ScanFailedPartial
  /\ last.ret = Err(SourceFailure)
  /\ last.preBuf # <<>>
  /\ from_utf8_ok(Consumed)

----------------------------------------------------------------------------
(* C16: a source failure in read_until_lim *)

\* the ends of the chunks that fill_buf hands out after cursor p
ChunkEnds(p) == {c \in cuts \cup {Len(data)} : c > p}

\* the fill_buf requests of the last call end with a failure
PlanFails == last.plan # <<>> /\ last.plan[Len(last.plan)] = "err"

\* how many requests of the last call's plan hand out a chunk
PlanChunks == Cardinality({j \in 1..Len(last.plan) : last.plan[j] = "ok"})

\* the cursors e that a call started at prePos has after n whole chunks
AfterChunks(n) ==
  {e \in ChunkEnds(last.prePos) \cup {last.prePos} :
     Cardinality({c \in ChunkEnds(last.prePos) : c <= e}) = n}

\* C16: read_until_lim returns the source's failure exactly when the request
\* that fails is made, i.e. when the chunks handed out before it exist and
\* hold no delimiter; it then returns at that request: the buffer holds its
\* earlier content followed by exactly those chunks and the cursor is behind
\* them.
C16_SourceFailureReturned ==
  IsUntil =>
    /\ last.ret = Err(SourceFailure) =>
         /\ PlanFails
         /\ pos \in AfterChunks(PlanChunks)
         /\ vec = last.preBuf \o Consumed
         /\ \A j \in 1..Len(Consumed) : Consumed[j] # last.delim
    /\ (/\ PlanFails
        /\ \E e \in AfterChunks(PlanChunks) :
             \A j \in (last.prePos + 1)..e : data[j] # last.delim) =>
         last.ret = Err(SourceFailure)

\* a failure at the second request of a call that did not start at the head
\* of the source, one chunk appended, more of the source left unread
C16_Witness ==
  /\ IsUntil
  /\ last.ret = Err(SourceFailure)
  /\ last.prePos > 0
  /\ pos > last.prePos
  /\ pos < Len(data)

----------------------------------------------------------------------------
(* C17: bytes appended and cursor advance *)

----------------------------------------------------------------------------
(* C18: the end of the sequence *)

\* the step started with the delimiter as the first unread byte
EmptyRecord == last.prePos < Len(data) /\ data[last.prePos + 1] = last.delim

\* C18: a step of Split or Lines yields None exactly when its scan returns
\* Ok(0); the scan returns Ok(0) only from a drained source, and from a
\* drained source that reports no failure it does.  A step that starts at an
\* empty record never yields None: its scan never counts 0, it succeeds when
\* max >= 1 and no request fails, and when it succeeds it counts 1 and the
\* item is Ok of the empty sequence.
C18_NoneOnlyWhenDrained ==
  IsStep =>
    /\ last.item = NoneItem <=> last.scan = Ok(0)
    /\ last.scan = Ok(0) => (last.prePos = Len(data) /\ pos = last.prePos)
    /\ (last.prePos = Len(data) /\ NoSourceFailure) => last.item = NoneItem
    /\ EmptyRecord =>
         /\ last.item # NoneItem
         /\ (NoSourceFailure /\ last.max >= 1) => last.scan.ok
         /\ last.scan.ok =>
              /\ last.scan = Ok(1)
              /\ pos = last.prePos + 1
              /\ last.item = OkItem(<<>>)

\* an empty line in the middle of the source, yielded by Lines as the empty
\* item
C18_Witness ==
  /\ IsLinesStep
  /\ EmptyRecord
  /\ last.prePos > 0
  /\ pos < Len(data)
  /\ last.item = OkItem(<<>>)

----------------------------------------------------------------------------
(* C19: where the items start *)

\* cursor p is at a record boundary: the head of the source or right behind
\* a delimiter
AtBoundary(p) == p = 0 \/ data[p] = last.delim

\* C19: every Ok item of Split and Lines is made of bytes that start at a
\* record boundary.  The code does not keep this: a step that fails after it
\* consumed whole chunks of a record leaves the cursor inside the record, and
\* the next step yields the rest of it as an item.
C19_ItemsStartAtBoundary ==
  (IsStep /\ last.item.tag = "Ok") => AtBoundary(last.prePos)

----------------------------------------------------------------------------
(* C20: the cursor after InvalidData *)

\* the read_line_lim that follows at once with bound max, on a source that
\* reports no failure
NextLine(max) == append_to_string(pos, str, max, <<>>)

\* C20: when read_line_lim returns InvalidData the String is what it was
\* before the call and the cursor is behind every byte the scan counted, of
\* which there is at least one; the call that follows starts there: it
\* leaves the String as it is or appends source bytes from behind the cursor
\* only, so the bytes of the failed call reach no later call.
C20_InvalidDataKeepsCursor ==
  (IsLine /\ last.ret = Err(InvalidData)) =>
    /\ str = last.preBuf
    /\ last.scan.ok
    /\ last.scan.n > 0
    /\ pos = last.prePos + last.scan.n
    /\ \A max \in 0..MaxMax :
         LET r == NextLine(max)
         IN /\ r.pos >= pos
            /\ r.buf = str \/ r.buf = str \o Between(pos, r.pos)

\* InvalidData from a scan over two chunks, with bytes left in the source
\* for the next call
C20_Witness ==
  /\ IsLine
  /\ last.ret = Err(InvalidData)
  /\ Crossed # {}
  /\ pos < Len(data)

====
